---- MODULE Spec2Model ----
(***************************************************************************)
(* SolidityAnalyzer (src/src/lib/solidityAnalyzer.ts): the line-pattern    *)
(* vulnerability scanner of AuditX, as a state machine.                    *)
(*                                                                         *)
(* Text is a sequence of one-character strings.  A regular expression is a *)
(* sequence of alternatives, an alternative a sequence of items, an item a *)
(* character class with a repetition range; RegExpExec matches it the way  *)
(* the JavaScript engine does (leftmost start, alternatives in order,      *)
(* greedy repetition with backtracking), from a start offset, so that the  *)
(* lastIndex a /g expression remembers between calls of test() is part of  *)
(* the state.                                                              *)
(*                                                                         *)
(* Numbers: a category score is held in fortieths (400 is 10.0), a penalty *)
(* in tenths, the overall score in tenths; every value the code can        *)
(* compute is a whole number of these units.                               *)
(***************************************************************************)
EXTENDS Integers, Sequences, FiniteSets, TLC

VARIABLES code, lines, pc, index, lastIndex, vulnerabilities, report, previous,
          tieUp, penalties, scores, weighted, overallScore

vars == <<code, lines, pc, index, lastIndex, vulnerabilities, report, previous,
          tieUp, penalties, scores, weighted, overallScore>>

(***************************************************************************)
(* Characters and character classes of JavaScript regular expressions.     *)
(***************************************************************************)
LowerCase == <<"a","b","c","d","e","f","g","h","i","j","k","l","m",
               "n","o","p","q","r","s","t","u","v","w","x","y","z">>

UpperCase == <<"A","B","C","D","E","F","G","H","I","J","K","L","M",
               "N","O","P","Q","R","S","T","U","V","W","X","Y","Z">>

Digit == {"0","1","2","3","4","5","6","7","8","9"}

\* \w
WordChar == {LowerCase[i] : i \in DOMAIN LowerCase}
              \cup {UpperCase[i] : i \in DOMAIN UpperCase} \cup Digit \cup {"_"}

\* \s
WhiteSpace == {" ", "\t", "\n", "\r", "\f"}

\* The characters a letter matches under the /i flag.
CaseVariants(c) ==
    IF \E i \in DOMAIN LowerCase : c = LowerCase[i] \/ c = UpperCase[i]
    THEN LET i == CHOOSE j \in DOMAIN LowerCase : c = LowerCase[j] \/ c = UpperCase[j]
         IN {LowerCase[i], UpperCase[i]}
    ELSE {c}

(***************************************************************************)
(* Regular expression items: a literal (one character set per position,    *)
(* two characters in a set under the /i flag) or a repeated character      *)
(* class, where max = -1 stands for no upper limit.                        *)
(***************************************************************************)
Class(cs, neg, min, max) ==
    <<[lit |-> FALSE, cs |-> cs, neg |-> neg, min |-> min, max |-> max]>>

One(cs)        == Class(cs, FALSE, 1, 1)
Opt(cs)        == Class(cs, FALSE, 0, 1)
Star(cs)       == Class(cs, FALSE, 0, -1)
Plus(cs)       == Class(cs, FALSE, 1, -1)
AtLeast(n, cs) == Class(cs, FALSE, n, -1)
NotStar(cs)    == Class(cs, TRUE, 0, -1)
NotPlus(cs)    == Class(cs, TRUE, 1, -1)
Lit(str)       == <<[lit |-> TRUE, sets |-> [i \in 1..Len(str) |-> {str[i]}]]>>
LitI(str)      == <<[lit |-> TRUE, sets |-> [i \in 1..Len(str) |-> CaseVariants(str[i])]]>>

Accepts(it, c) == (c \in it.cs) # it.neg

\* The literal stands at position pos (1-based) of s.
LitAt(it, s, pos) ==
    /\ pos + Len(it.sets) - 1 <= Len(s)
    /\ \A i \in 1..Len(it.sets) : s[pos + i - 1] \in it.sets[i]

\* The number of characters of s from position pos on that a class takes when
\* it takes as many as it can, counted up from n.
RECURSIVE Run(_, _, _, _)
Run(it, s, pos, n) ==
    IF /\ pos + n <= Len(s)
       /\ (it.max = -1 \/ n < it.max)
       /\ Accepts(it, s[pos + n])
    THEN Run(it, s, pos, n + 1)
    ELSE n

\* The position after the match of items[k..] at position pos, 0 when there is
\* none: a class first takes its longest run and gives characters back one at
\* a time until the rest matches.
RECURSIVE MatchItems(_, _, _, _), GiveBack(_, _, _, _, _)
MatchItems(items, k, s, pos) ==
    IF k > Len(items) THEN pos
    ELSE IF items[k].lit
         THEN IF LitAt(items[k], s, pos)
              THEN MatchItems(items, k + 1, s, pos + Len(items[k].sets))
              ELSE 0
         ELSE GiveBack(items, k, s, pos, Run(items[k], s, pos, 0))

GiveBack(items, k, s, pos, n) ==
    IF n < items[k].min THEN 0
    ELSE LET r == MatchItems(items, k + 1, s, pos + n)
         IN IF r # 0 THEN r
            ELSE IF n = 0 THEN 0
            ELSE GiveBack(items, k, s, pos, n - 1)

\* The first alternative (from alternative a on) that matches at pos.
RECURSIVE MatchAt(_, _, _, _)
MatchAt(re, a, s, pos) ==
    IF a > Len(re) THEN 0
    ELSE LET r == MatchItems(re[a], 1, s, pos)
         IN IF r # 0 THEN r ELSE MatchAt(re, a + 1, s, pos)

\* The end of the leftmost match starting at position pos or later, 0 when
\* there is none.
Search(re, s, pos) ==
    LET starts == {p \in pos..(Len(s) + 1) : MatchAt(re, 1, s, p) # 0}
    IN IF starts = {} THEN 0
       ELSE MatchAt(re, 1, s, CHOOSE p \in starts : \A q \in starts : p <= q)

\* With lastIndex left where it was by a search that fails.
ExecKeepsIndex(re, s, from) ==
    LET r == IF from > Len(s) THEN 0 ELSE Search(re, s, from + 1)
    IN IF r = 0 THEN [found |-> FALSE, lastIndex |-> from]
       ELSE [found |-> TRUE, lastIndex |-> r - 1]

\* RegExp.prototype.exec of a /g expression whose lastIndex is from: the search
\* starts at offset from; a match leaves lastIndex at its end, a failure at 0.
Exec(re, s, from) ==
    LET r == IF from > Len(s) THEN 0 ELSE Search(re, s, from + 1)
    IN IF r = 0 THEN [found |-> FALSE, lastIndex |-> 0]
       ELSE [found |-> TRUE, lastIndex |-> r - 1]

(***************************************************************************)
(* The regular expressions of the detectors.                               *)
(***************************************************************************)
\* /\.call\{value:\s*[^}]+\}/g
ReCallValue ==
    <<Lit(<<".","c","a","l","l","{","v","a","l","u","e",":">>)
        \o Star(WhiteSpace) \o NotPlus({"}"}) \o Lit(<<"}">>)>>

\* /\.call\.value\(/g
ReCallDotValue == <<Lit(<<".","c","a","l","l",".","v","a","l","u","e","(">>)>>

\* /\.send\(/g
ReSend == <<Lit(<<".","s","e","n","d","(">>)>>

\* /\.transfer\(/g
ReTransfer == <<Lit(<<".","t","r","a","n","s","f","e","r","(">>)>>

\* detectReentrancy's patterns, in array order.
patterns == <<ReCallValue, ReCallDotValue, ReSend, ReTransfer>>

\* /(\w+)\s*[\+\-\*\/\%]\s*(\w+)/g
mathPattern ==
    <<Plus(WordChar) \o Star(WhiteSpace) \o One({"+","-","*","/","%"})
        \o Star(WhiteSpace) \o Plus(WordChar)>>

\* /SafeMath|using\s+SafeMath/i
safeMathPattern ==
    <<LitI(<<"S","a","f","e","M","a","t","h">>),
      LitI(<<"u","s","i","n","g">>) \o Plus(WhiteSpace)
        \o LitI(<<"S","a","f","e","M","a","t","h">>)>>

\* /pragma\s+solidity\s+[\^>]?0\.([8-9]|\d{2,})/ : the group's two
\* alternatives, each behind the common prefix.
VersionPrefix ==
    Lit(<<"p","r","a","g","m","a">>) \o Plus(WhiteSpace)
      \o Lit(<<"s","o","l","i","d","i","t","y">>) \o Plus(WhiteSpace)
      \o Opt({"^", ">"}) \o Lit(<<"0",".">>)

solidityVersionPattern ==
    <<VersionPrefix \o One({"8","9"}), VersionPrefix \o AtLeast(2, Digit)>>

\* /for\s*\(/
forLoopPattern == <<Lit(<<"f","o","r">>) \o Star(WhiteSpace) \o Lit(<<"(">>)>>

\* /\w+\[\w*\]\s*=/
storageAccessPattern ==
    <<Plus(WordChar) \o Lit(<<"[">>) \o Star(WordChar) \o Lit(<<"]">>)
        \o Star(WhiteSpace) \o Lit(<<"=">>)>>

\* /function\s+\w+\s*\([^)]*\)\s*(public|external)/g : the group's two
\* alternatives, each behind the common prefix.
FunctionHead ==
    Lit(<<"f","u","n","c","t","i","o","n">>) \o Plus(WhiteSpace) \o Plus(WordChar)
      \o Star(WhiteSpace) \o Lit(<<"(">>) \o NotStar({")"}) \o Lit(<<")">>)
      \o Star(WhiteSpace)

accessFunctionPattern ==
    <<FunctionHead \o Lit(<<"p","u","b","l","i","c">>),
      FunctionHead \o Lit(<<"e","x","t","e","r","n","a","l">>)>>

RequireSender ==
    Lit(<<"r","e","q","u","i","r","e">>) \o Star(WhiteSpace) \o Lit(<<"(">>)
      \o Star(WhiteSpace) \o Lit(<<"m","s","g",".","s","e","n","d","e","r">>)

\* /(onlyOwner|require\s*\(\s*msg\.sender|modifier)/
modifierPattern ==
    <<Lit(<<"o","n","l","y","O","w","n","e","r">>), RequireSender,
      Lit(<<"m","o","d","i","f","i","e","r">>)>>

\* /function\s+\w+/g
natspecFunctionPattern ==
    <<Lit(<<"f","u","n","c","t","i","o","n">>) \o Plus(WhiteSpace) \o Plus(WordChar)>>

\* /\/\/\/|\/\*\*/
natspecPattern == <<Lit(<<"/","/","/">>), Lit(<<"/","*","*">>)>>

\* /\w+\s*=/, /\w+\+\+/, /\w+--/
ReAssign    == <<Plus(WordChar) \o Star(WhiteSpace) \o Lit(<<"=">>)>>
ReIncrement == <<Plus(WordChar) \o Lit(<<"+","+">>)>>
ReDecrement == <<Plus(WordChar) \o Lit(<<"-","-">>)>>

\* /require\s*\(\s*msg\.sender|onlyOwner/
bodyGuardPattern == <<RequireSender, Lit(<<"o","n","l","y","O","w","n","e","r">>)>>

(***************************************************************************)
(* Source lines the model draws its sources from.                          *)
(***************************************************************************)
LnEmpty    == << >>
LnCall     == <<"x",".","c","a","l","l","{","v","a","l","u","e",":"," ","a","m","t","}","(","\"","\"",")",";">>
LnSendTransfer == <<"a",".","s","e","n","d","(","1",")",";"," ","b",".","t","r","a","n","s","f","e","r","(","2",")",";">>
LnPayable  == <<"p","a","y","a","b","l","e","(","m","s","g",".","s","e","n","d","e","r",")",".","t","r","a","n","s","f","e","r","(","a","m","t",")",";">>
LnCompound == <<"b","a","l","a","n","c","e"," ","-","="," ","a","m","t",";">>
LnSum      == <<"c"," ","="," ","a"," ","+"," ","b",";">>
LnCount    == <<" "," "," "," ","c","o","u","n","t","+","+",";">>
LnFor      == <<"f","o","r"," ","(","u","i","n","t"," ","i"," ","="," ","0",";"," ","i"," ","<"," ","n",";"," ","i","+","+",")"," ","{">>
LnStore    == <<"d","a","t","a","[","i","]"," ","="," ","i",";">>
LnFunction == <<"f","u","n","c","t","i","o","n"," ","s","e","t","O","w","n","e","r","(","a","d","d","r","e","s","s"," ","x",")"," ","p","u","b","l","i","c"," ","{">>
LnNatSpec  == <<"/","/","/"," ","@","n","o","t","i","c","e"," ","s","e","t","s"," ","t","h","e"," ","o","w","n","e","r">>
LnPragma08 == <<"p","r","a","g","m","a"," ","s","o","l","i","d","i","t","y"," ","^","0",".","8",".","4",";">>
LnPragma04 == <<"p","r","a","g","m","a"," ","s","o","l","i","d","i","t","y"," ","^","0",".","4",".","2","4",";">>
LnSafeMath == <<"u","s","i","n","g"," ","S","a","f","e","M","a","t","h"," ","f","o","r"," ","u","i","n","t","2","5","6",";">>
LnGuarded  == <<"f","u","n","c","t","i","o","n"," ","s","e","t","O","w","n","e","r","(","a","d","d","r","e","s","s"," ","x",")"," ","p","u","b","l","i","c"," ","o","n","l","y","O","w","n","e","r"," ","{"," ","o","w","n","e","r"," ","="," ","x",";"," ","}">>
LnRequire  == <<" "," "," "," ","r","e","q","u","i","r","e","(","m","s","g",".","s","e","n","d","e","r"," ","=","="," ","o","w","n","e","r",")",";">>
LnClose    == <<"}">>
LnIndentStore == <<" "," "," "," "," "," "," "," ","d","a","t","a","[","i","]"," ","="," ","i",";">>
LnIndentSend  == <<" "," "," "," ","a",".","s","e","n","d","(","1",")",";"," ">>
LnModifier == <<" "," "," "," ","m","o","d","i","f","i","e","r"," ","w","h","e","n","N","o","t","P","a","u","s","e","d",";">>
LnPragmaGe08    == <<"p","r","a","g","m","a"," ","s","o","l","i","d","i","t","y"," ",">","=","0",".","8",".","0",";">>
LnPragmaGt08    == <<"p","r","a","g","m","a"," ","s","o","l","i","d","i","t","y"," ",">","0",".","8",".","0",";">>
LnPragmaPlain08 == <<"p","r","a","g","m","a"," ","s","o","l","i","d","i","t","y"," ","0",".","8",".","1","9",";">>

Catalog == {LnEmpty, LnCall, LnSendTransfer, LnPayable, LnCompound, LnSum, LnCount,
            LnFor, LnStore, LnFunction, LnNatSpec, LnPragma08, LnPragma04, LnSafeMath,
            LnGuarded, LnRequire, LnClose, LnIndentStore, LnIndentSend,
            LnPragmaGe08, LnPragmaGt08, LnPragmaPlain08, LnModifier}

\* Exec for the line expressions on the lines of the catalog, worked out once.
LinePatterns ==
    {ReCallValue, ReCallDotValue, ReSend, ReTransfer, mathPattern, forLoopPattern,
     storageAccessPattern, accessFunctionPattern, modifierPattern,
     natspecFunctionPattern, natspecPattern, ReAssign, ReIncrement, ReDecrement,
     bodyGuardPattern}

ExecTable ==
    [re \in LinePatterns |-> [s \in Catalog |-> [from \in 0..Len(s) |-> Exec(re, s, from)]]]

RegExpExec(re, s, from) ==
    IF re \in LinePatterns /\ s \in Catalog /\ from <= Len(s)
    THEN ExecTable[re][s][from]
    ELSE Exec(re, s, from)

\* test() of an expression without the /g flag: always from offset 0.
RegExpTest(re, s) == RegExpExec(re, s, 0).found

(***************************************************************************)
(* String operations.                                                      *)
(***************************************************************************)
Min(a, b) == IF a < b THEN a ELSE b
Max(a, b) == IF a > b THEN a ELSE b

\* String.prototype.split('\n'): the pieces between the line breaks; a text
\* without a line break, the empty text included, is one piece.
Split(s) ==
    LET breaks == {i \in 1..Len(s) : s[i] = "\n"}
        \* The position of the k-th line break; 0 and Len(s) + 1 bound the text.
        Break(k) == IF k = 0 THEN 0
                    ELSE IF k > Cardinality(breaks) THEN Len(s) + 1
                    ELSE CHOOSE i \in breaks : Cardinality({j \in breaks : j < i}) = k - 1
    IN [k \in 1..(Cardinality(breaks) + 1) |-> SubSeq(s, Break(k - 1) + 1, Break(k) - 1)]

\* String.prototype.trim()
RECURSIVE TrimStart(_), TrimEnd(_)
TrimStart(s) == IF Len(s) > 0 /\ s[1] \in WhiteSpace THEN TrimStart(Tail(s)) ELSE s
TrimEnd(s) ==
    IF Len(s) > 0 /\ s[Len(s)] \in WhiteSpace
    THEN TrimEnd(SubSeq(s, 1, Len(s) - 1)) ELSE s

\* With trimStart() for trim().
TrimLeft(s) == TrimStart(s)

Trim(s) == TrimEnd(TrimStart(s))

\* String.prototype.includes(sub)
Includes(s, sub) ==
    \E i \in 1..(Len(s) - Len(sub) + 1) : SubSeq(s, i, i + Len(sub) - 1) = sub

(***************************************************************************)
(* Findings (interface Vulnerability).  id is the pair of the template's   *)
(* prefix and the line index it is built from; title is the title string,  *)
(* TitleText spells it out for includes().  A finding's description and    *)
(* suggestions are fixed by its title and are left out.                    *)
(***************************************************************************)
TitleReentrancy == "Potential Reentrancy Vulnerability"
TitleOverflow   == "Potential Integer Overflow/Underflow"
TitleGas        == "Gas Inefficient Storage Access in Loop"
TitleAccess     == "Missing Access Control"
TitleNatSpec    == "Missing NatSpec Documentation"

Titles == {TitleReentrancy, TitleOverflow, TitleGas, TitleAccess, TitleNatSpec}

Severities == {"Critical", "High", "Medium", "Low", "Info"}

TitleText(title) ==
    CASE title = TitleReentrancy ->
           <<"P","o","t","e","n","t","i","a","l"," ","R","e","e","n","t","r","a","n","c","y"," ","V","u","l","n","e","r","a","b","i","l","i","t","y">>
      [] title = TitleOverflow ->
           <<"P","o","t","e","n","t","i","a","l"," ","I","n","t","e","g","e","r"," ","O","v","e","r","f","l","o","w","/","U","n","d","e","r","f","l","o","w">>
      [] title = TitleGas ->
           <<"G","a","s"," ","I","n","e","f","f","i","c","i","e","n","t"," ","S","t","o","r","a","g","e"," ","A","c","c","e","s","s"," ","i","n"," ","L","o","o","p">>
      [] title = TitleAccess ->
           <<"M","i","s","s","i","n","g"," ","A","c","c","e","s","s"," ","C","o","n","t","r","o","l">>
      [] title = TitleNatSpec ->
           <<"M","i","s","s","i","n","g"," ","N","a","t","S","p","e","c"," ","D","o","c","u","m","e","n","t","a","t","i","o","n">>

Vulnerability(prefix, idx, title, severity, line, text) ==
    [id |-> <<prefix, idx>>, title |-> title, severity |-> severity,
     line |-> line, code |-> Trim(text)]

(***************************************************************************)
(* The look-ahead and look-behind helpers.  Indexes are the code's 0-based *)
(* ones; ls[i + 1] is this.lines[i].                                       *)
(***************************************************************************)
IsStateModification(text) ==
    \/ RegExpTest(ReAssign, text)
    \/ RegExpTest(ReIncrement, text)
    \/ RegExpTest(ReDecrement, text)

hasStateModificationAfterCall(ls, callLineIndex) ==
    \E i \in (callLineIndex + 1)..(Min(callLineIndex + 5, Len(ls)) - 1) :
        IsStateModification(ls[i + 1])

\* The loop returns true at the first guard it meets and stops, with false,
\* after the first line that holds a closing brace.
hasAccessControlInFunction(ls, functionLineIndex) ==
    \E i \in functionLineIndex..(Min(functionLineIndex + 10, Len(ls)) - 1) :
        /\ RegExpTest(bodyGuardPattern, ls[i + 1])
        /\ \A j \in functionLineIndex..(i - 1) : ~Includes(ls[j + 1], <<"}">>)

hasNatSpecAbove(ls, functionLineIndex) ==
    \E i \in Max(0, functionLineIndex - 3)..(functionLineIndex - 1) :
        RegExpTest(natspecPattern, ls[i + 1])

(***************************************************************************)
(* The forEach callbacks of the detectors, one line each: what the line    *)
(* pushes and where it leaves the lastIndex of the /g expressions.         *)
(***************************************************************************)
\* detectReentrancy: the four patterns in order, each with its own lastIndex.
ReentrancyCallback(ls, idx, li) ==
    LET line == ls[idx + 1]
        r == [p \in 1..4 |-> RegExpExec(patterns[p], line, li[p])]
        hits == SelectSeq(<<1, 2, 3, 4>>, LAMBDA p : r[p].found)
        severity == IF hasStateModificationAfterCall(ls, idx) THEN "Critical" ELSE "High"
    IN [push |-> [k \in 1..Len(hits) |->
                    Vulnerability("reentrancy", idx, TitleReentrancy, severity, idx + 1, line)],
        lastIndex |-> [p \in 1..4 |-> r[p].lastIndex]]

\* detectOverflowUnderflow, inside the gate.
OverflowCallback(ls, idx, li) ==
    LET line == ls[idx + 1]
        r == RegExpExec(mathPattern, line, li)
    IN [push |-> IF r.found /\ ~Includes(line, <<"/","/">>) /\ ~Includes(line, <<"*">>)
                 THEN <<Vulnerability("overflow", idx, TitleOverflow, "Medium", idx + 1, line)>>
                 ELSE << >>,
        lastIndex |-> r.lastIndex]

hasSafeMath(text) == RegExpTest(safeMathPattern, text)
hasModernSolidity(text) == RegExpTest(solidityVersionPattern, text)

\* Without the version test.
GateWithoutVersion(text) == ~hasSafeMath(text)

\* The gate of detectOverflowUnderflow: the lines are scanned at all.
OverflowGateOpen(text) == ~hasSafeMath(text) /\ ~hasModernSolidity(text)

\* Without the break: every line of the window that assigns to an indexed name.
GasCallbackNoBreak(ls, idx) ==
    LET window == idx..(Min(idx + 10, Len(ls)) - 1)
        hits == SelectSeq([k \in 1..Len(ls) |-> k - 1],
                          LAMBDA i : i \in window /\ RegExpTest(storageAccessPattern, ls[i + 1]))
    IN IF RegExpTest(forLoopPattern, ls[idx + 1])
       THEN [k \in 1..Len(hits) |->
               Vulnerability("gas-loop", idx, TitleGas, "Low", hits[k] + 1, ls[hits[k] + 1])]
       ELSE << >>

\* detectGasInefficiency: the first line from the loop line on, within the
\* window, that assigns to an indexed name.
GasCallback(ls, idx) ==
    LET window == idx..(Min(idx + 10, Len(ls)) - 1)
        hits == {i \in window : RegExpTest(storageAccessPattern, ls[i + 1])}
    IN IF RegExpTest(forLoopPattern, ls[idx + 1]) /\ hits # {}
       THEN LET i == CHOOSE h \in hits : \A o \in hits : h <= o
            IN <<Vulnerability("gas-loop", idx, TitleGas, "Low", i + 1, ls[i + 1])>>
       ELSE << >>

\* Without the tests for a guard, on the line and below it.
AccessCallbackUnguarded(ls, idx, li) ==
    LET line == ls[idx + 1]
        r == RegExpExec(accessFunctionPattern, line, li)
    IN [push |-> IF r.found
                 THEN <<Vulnerability("access", idx, TitleAccess, "High", idx + 1, line)>>
                 ELSE << >>,
        lastIndex |-> r.lastIndex]

\* detectAccessControl
AccessCallback(ls, idx, li) ==
    LET line == ls[idx + 1]
        r == RegExpExec(accessFunctionPattern, line, li)
    IN [push |-> IF /\ r.found
                    /\ ~RegExpTest(modifierPattern, line)
                    /\ ~hasAccessControlInFunction(ls, idx)
                 THEN <<Vulnerability("access", idx, TitleAccess, "High", idx + 1, line)>>
                 ELSE << >>,
        lastIndex |-> r.lastIndex]

\* With severity 'Low' for 'Info'.
NatSpecCallbackLow(ls, idx, li) ==
    LET line == ls[idx + 1]
        r == RegExpExec(natspecFunctionPattern, line, li)
    IN [push |-> IF r.found /\ ~hasNatSpecAbove(ls, idx)
                 THEN <<Vulnerability("natspec", idx, TitleNatSpec, "Low", idx + 1, line)>>
                 ELSE << >>,
        lastIndex |-> r.lastIndex]

\* detectMissingNatSpec
NatSpecCallback(ls, idx, li) ==
    LET line == ls[idx + 1]
        r == RegExpExec(natspecFunctionPattern, line, li)
    IN [push |-> IF r.found /\ ~hasNatSpecAbove(ls, idx)
                 THEN <<Vulnerability("natspec", idx, TitleNatSpec, "Info", idx + 1, line)>>
                 ELSE << >>,
        lastIndex |-> r.lastIndex]

(***************************************************************************)
(* Scoring.  Penalties are in tenths, category scores in fortieths: the    *)
(* code's 10 - min(40, penalty) / 4 is, in fortieths, 400 less the capped  *)
(* penalty in tenths.                                                      *)
(***************************************************************************)
\* With High: 8 for High: 7.
severityWeightsHigh8(severity) ==
    CASE severity = "Critical" -> 10
      [] severity = "High"     -> 8
      [] severity = "Medium"   -> 5
      [] severity = "Low"      -> 3
      [] severity = "Info"     -> 1

severityWeights(severity) ==
    CASE severity = "Critical" -> 10
      [] severity = "High"     -> 7
      [] severity = "Medium"   -> 5
      [] severity = "Low"      -> 3
      [] severity = "Info"     -> 1

maxPenalty == 40

NoPenalties == [security |-> 0, gas |-> 0, performance |-> 0, quality |-> 0, doc |-> 0]

\* With securityPenalty -= penalty for securityPenalty += penalty.
ScoreCallbackCredit(pen, vuln) ==
    LET penalty == severityWeights(vuln.severity)
        title == TitleText(vuln.title)
        Has(word) == Includes(title, word)
    IN [security |-> pen.security -
            (IF \/ Has(<<"R","e","e","n","t","r","a","n","c","y">>)
                \/ Has(<<"A","c","c","e","s","s"," ","C","o","n","t","r","o","l">>)
                \/ Has(<<"O","v","e","r","f","l","o","w">>)
             THEN 10 * penalty ELSE 0),
        gas |-> pen.gas + (IF Has(<<"G","a","s">>) THEN 10 * penalty ELSE 0),
        performance |-> pen.performance +
            (IF Has(<<"L","o","o","p">>) \/ Has(<<"S","t","o","r","a","g","e">>)
             THEN 10 * penalty ELSE 0),
        doc |-> pen.doc + (IF Has(<<"N","a","t","S","p","e","c">>) THEN 10 * penalty ELSE 0),
        quality |-> pen.quality + 3 * penalty]

\* With one addition to performancePenalty for 'Loop' and one for 'Storage'.
ScoreCallbackTwice(pen, vuln) ==
    LET penalty == severityWeights(vuln.severity)
        title == TitleText(vuln.title)
        Has(word) == Includes(title, word)
    IN [security |-> pen.security +
            (IF \/ Has(<<"R","e","e","n","t","r","a","n","c","y">>)
                \/ Has(<<"A","c","c","e","s","s"," ","C","o","n","t","r","o","l">>)
                \/ Has(<<"O","v","e","r","f","l","o","w">>)
             THEN 10 * penalty ELSE 0),
        gas |-> pen.gas + (IF Has(<<"G","a","s">>) THEN 10 * penalty ELSE 0),
        performance |-> pen.performance
            + (IF Has(<<"L","o","o","p">>) THEN 10 * penalty ELSE 0)
            + (IF Has(<<"S","t","o","r","a","g","e">>) THEN 10 * penalty ELSE 0),
        doc |-> pen.doc + (IF Has(<<"N","a","t","S","p","e","c">>) THEN 10 * penalty ELSE 0),
        quality |-> pen.quality + 3 * penalty]

\* The forEach callback of calculateScores: the penalties after one finding.
ScoreCallback(pen, vuln) ==
    LET penalty == severityWeights(vuln.severity)
        title == TitleText(vuln.title)
        Has(word) == Includes(title, word)
    IN [security |-> pen.security +
            (IF \/ Has(<<"R","e","e","n","t","r","a","n","c","y">>)
                \/ Has(<<"A","c","c","e","s","s"," ","C","o","n","t","r","o","l">>)
                \/ Has(<<"O","v","e","r","f","l","o","w">>)
             THEN 10 * penalty ELSE 0),
        gas |-> pen.gas + (IF Has(<<"G","a","s">>) THEN 10 * penalty ELSE 0),
        performance |-> pen.performance +
            (IF Has(<<"L","o","o","p">>) \/ Has(<<"S","t","o","r","a","g","e">>)
             THEN 10 * penalty ELSE 0),
        doc |-> pen.doc + (IF Has(<<"N","a","t","S","p","e","c">>) THEN 10 * penalty ELSE 0),
        quality |-> pen.quality + 3 * penalty]

\* Without Math.max(1, ...).
BucketScoreNoFloor(tenths) == 400 - Min(10 * maxPenalty, tenths)

\* With Math.max and Math.min taken for each other.
BucketScoreSwapped(tenths) == Min(40, 400 - Max(10 * maxPenalty, tenths))

\* Math.max(1, 10 - Math.min(maxPenalty, penalty) / 4), in fortieths.
BucketScore(tenths) == Max(40, 400 - Min(10 * maxPenalty, tenths))

ScoresOf(pen) ==
    [security      |-> BucketScore(pen.security),
     gasEfficiency |-> BucketScore(pen.gas),
     performance   |-> BucketScore(pen.performance),
     codeQuality   |-> BucketScore(pen.quality),
     documentation |-> BucketScore(pen.doc)]

RECURSIVE PenaltiesOf(_, _)
PenaltiesOf(vs, pen) ==
    IF vs = << >> THEN pen ELSE PenaltiesOf(Tail(vs), ScoreCallback(pen, Head(vs)))

calculateScores(vs) == ScoresOf(PenaltiesOf(vs, NoPenalties))

\* With every weight 0.2.
WeightedSumEqual(sc) ==
    2 * sc.security + 2 * sc.gasEfficiency + 2 * sc.performance
      + 2 * sc.codeQuality + 2 * sc.documentation

\* The weighted sum of calculateOverallScore, in four-hundredths: the weights
\* in tenths times the scores in fortieths.
WeightedSum(sc) ==
    3 * sc.security + 2 * sc.gasEfficiency + 2 * sc.performance
      + 2 * sc.codeQuality + 1 * sc.documentation

\* With Math.floor for Math.round.
calculateOverallScoreFloor(sc, up) ==
    (3 * sc.security + 2 * sc.gasEfficiency + 2 * sc.performance
       + 2 * sc.codeQuality + sc.documentation) \div 40

\* Math.round(weighted * 10) / 10, in tenths.  Math.round takes the nearest
\* integer.  The code's doubles carry a rounding error far below a fortieth,
\* which decides the result only when weighted * 10 is exactly halfway between
\* two integers: there the double lies on either side, up tells which.
calculateOverallScore(sc, up) ==
    LET w == WeightedSum(sc)
    IN IF w % 40 = 20 /\ ~up THEN (w - 20) \div 40 ELSE (w + 20) \div 40

\* Set.prototype.add, the set held in insertion order.
SetAdd(seq, x) == IF \E i \in DOMAIN seq : seq[i] = x THEN seq ELSE Append(seq, x)

\* With the suggestions chosen by the findings: the one for a finding's
\* detector only.
generateSuggestionsByFinding(vs) ==
    LET Found(title) == \E i \in DOMAIN vs : vs[i].title = title
        s1 == IF Found(TitleReentrancy)
              THEN SetAdd(<< >>, "Follow the checks-effects-interactions pattern for all external calls")
              ELSE << >>
        s2 == IF Found(TitleNatSpec)
              THEN SetAdd(s1, "Add comprehensive NatSpec documentation to all public functions")
              ELSE s1
        s3 == IF Found(TitleAccess)
              THEN SetAdd(s2, "Implement proper access control for administrative functions")
              ELSE s2
        s4 == IF Found(TitleGas)
              THEN SetAdd(s3, "Consider gas optimization for frequently called functions")
              ELSE s3
        s5 == IF Found(TitleOverflow)
              THEN SetAdd(s4, "Use latest Solidity version with built-in overflow protection")
              ELSE s4
    IN s5

generateSuggestions(vs) ==
    LET s1 == SetAdd(<< >>, "Follow the checks-effects-interactions pattern for all external calls")
        s2 == SetAdd(s1, "Use OpenZeppelin libraries for common security patterns")
        s3 == SetAdd(s2, "Add comprehensive NatSpec documentation to all public functions")
        s4 == SetAdd(s3, "Implement proper access control for administrative functions")
        s5 == SetAdd(s4, "Consider gas optimization for frequently called functions")
        s6 == SetAdd(s5, "Add event emissions for important state changes")
        s7 == SetAdd(s6, "Use latest Solidity version with built-in overflow protection")
    IN s7

\* With the findings put in front of the list (unshift) instead of behind it.
AuditReportUnshift(vs, up) ==
    LET sc == calculateScores(vs)
    IN [overallScore |-> calculateOverallScore(sc, up),
        scores |-> sc,
        vulnerabilities |-> [i \in 1..Len(vs) |-> vs[Len(vs) + 1 - i]],
        suggestions |-> generateSuggestions(vs)]

\* The value analyze() returns.
AuditReport(vs, up) ==
    LET sc == calculateScores(vs)
    IN [overallScore |-> calculateOverallScore(sc, up),
        scores |-> sc,
        vulnerabilities |-> vs,
        suggestions |-> generateSuggestions(vs)]

(***************************************************************************)
(* The analyzer as a state machine.                                        *)
(*   code, lines      the fields of the SolidityAnalyzer instance          *)
(*   pc, index        the detector analyze() is in and the index of the    *)
(*                    line its forEach comes to next                       *)
(*   lastIndex        the lastIndex of the /g expressions of the detectors *)
(*                    (of the ones made last; 0 before any is made)        *)
(*   vulnerabilities  the findings pushed so far                           *)
(*   report           the report the last analyze() returned, if any       *)
(*   previous         the report of the analysis of the same text before   *)
(*   tieUp            the side the doubles fall on at a rounding tie       *)
(***************************************************************************)
\* The patterns made once and used again by every call: each keeps the lastIndex
\* the call before left in it.
HoistedPatterns == lastIndex.patterns

\* A new array of /g expressions (detectReentrancy), a new /g expression.
NewPatterns == <<0, 0, 0, 0>>
NewRegExp == 0

\* The constructor.
Construct ==
    /\ pc = "done"
    /\ lines' = Split(code)
    /\ pc' = "idle"
    /\ previous' = report
    /\ report' = {}
    /\ UNCHANGED <<code, index, lastIndex, vulnerabilities, tieUp,
                   penalties, scores, weighted, overallScore>>

\* analyze() up to the first line of detectReentrancy.
Analyze ==
    /\ pc \in {"idle", "done"}
    /\ vulnerabilities' = << >>
    /\ lastIndex' = [lastIndex EXCEPT !.patterns = NewPatterns]
    /\ index' = 0
    /\ pc' = "reentrancy"
    /\ previous' = IF report # {} THEN report ELSE previous
    /\ report' = {}
    /\ UNCHANGED <<code, lines, tieUp, penalties, scores, weighted, overallScore>>

ReentrancyLine ==
    /\ pc = "reentrancy"
    /\ index < Len(lines)
    /\ LET r == ReentrancyCallback(lines, index, lastIndex.patterns)
       IN /\ vulnerabilities' = vulnerabilities \o r.push
          /\ lastIndex' = [lastIndex EXCEPT !.patterns = r.lastIndex]
    /\ index' = index + 1
    /\ UNCHANGED <<code, lines, pc, report, previous, tieUp,
                   penalties, scores, weighted, overallScore>>

\* detectReentrancy returns; detectOverflowUnderflow up to its first line, or
\* to its end when the gate is closed.
DetectOverflowUnderflow ==
    /\ pc = "reentrancy"
    /\ index = Len(lines)
    /\ lastIndex' = [lastIndex EXCEPT !.mathPattern = NewRegExp]
    /\ index' = IF OverflowGateOpen(code) THEN 0 ELSE Len(lines)
    /\ pc' = "overflow"
    /\ UNCHANGED <<code, lines, vulnerabilities, report, previous, tieUp,
                   penalties, scores, weighted, overallScore>>

OverflowLine ==
    /\ pc = "overflow"
    /\ index < Len(lines)
    /\ LET r == OverflowCallback(lines, index, lastIndex.mathPattern)
       IN /\ vulnerabilities' = vulnerabilities \o r.push
          /\ lastIndex' = [lastIndex EXCEPT !.mathPattern = r.lastIndex]
    /\ index' = index + 1
    /\ UNCHANGED <<code, lines, pc, report, previous, tieUp,
                   penalties, scores, weighted, overallScore>>

DetectGasInefficiency ==
    /\ pc = "overflow"
    /\ index = Len(lines)
    /\ index' = 0
    /\ pc' = "gas"
    /\ UNCHANGED <<code, lines, lastIndex, vulnerabilities, report, previous, tieUp,
                   penalties, scores, weighted, overallScore>>

GasLine ==
    /\ pc = "gas"
    /\ index < Len(lines)
    /\ vulnerabilities' = vulnerabilities \o GasCallback(lines, index)
    /\ index' = index + 1
    /\ UNCHANGED <<code, lines, pc, lastIndex, report, previous, tieUp,
                   penalties, scores, weighted, overallScore>>

DetectAccessControl ==
    /\ pc = "gas"
    /\ index = Len(lines)
    /\ lastIndex' = [lastIndex EXCEPT !.accessFunctionPattern = NewRegExp]
    /\ index' = 0
    /\ pc' = "access"
    /\ UNCHANGED <<code, lines, vulnerabilities, report, previous, tieUp,
                   penalties, scores, weighted, overallScore>>

AccessLine ==
    /\ pc = "access"
    /\ index < Len(lines)
    /\ LET r == AccessCallback(lines, index, lastIndex.accessFunctionPattern)
       IN /\ vulnerabilities' = vulnerabilities \o r.push
          /\ lastIndex' = [lastIndex EXCEPT !.accessFunctionPattern = r.lastIndex]
    /\ index' = index + 1
    /\ UNCHANGED <<code, lines, pc, report, previous, tieUp,
                   penalties, scores, weighted, overallScore>>

DetectMissingNatSpec ==
    /\ pc = "access"
    /\ index = Len(lines)
    /\ lastIndex' = [lastIndex EXCEPT !.natspecFunctionPattern = NewRegExp]
    /\ index' = 0
    /\ pc' = "natspec"
    /\ UNCHANGED <<code, lines, vulnerabilities, report, previous, tieUp,
                   penalties, scores, weighted, overallScore>>

NatSpecLine ==
    /\ pc = "natspec"
    /\ index < Len(lines)
    /\ LET r == NatSpecCallback(lines, index, lastIndex.natspecFunctionPattern)
       IN /\ vulnerabilities' = vulnerabilities \o r.push
          /\ lastIndex' = [lastIndex EXCEPT !.natspecFunctionPattern = r.lastIndex]
    /\ index' = index + 1
    /\ UNCHANGED <<code, lines, pc, report, previous, tieUp,
                   penalties, scores, weighted, overallScore>>

\* detectMissingNatSpec returns; the scores, the suggestions and the report.
Finish ==
    /\ pc = "natspec"
    /\ index = Len(lines)
    /\ report' = {AuditReport(vulnerabilities, tieUp)}
    /\ pc' = "done"
    /\ UNCHANGED <<code, lines, index, lastIndex, vulnerabilities, previous, tieUp,
                   penalties, scores, weighted, overallScore>>

Next ==
    \/ Construct
    \/ Analyze
    \/ ReentrancyLine
    \/ DetectOverflowUnderflow
    \/ OverflowLine
    \/ DetectGasInefficiency
    \/ GasLine
    \/ DetectAccessControl
    \/ AccessLine
    \/ DetectMissingNatSpec
    \/ NatSpecLine
    \/ Finish

(***************************************************************************)
(* Sources.  A source is the lines of a sequence joined by line breaks.    *)
(***************************************************************************)
MaxLines == 3

RECURSIVE JoinLines(_)
JoinLines(ls) ==
    IF Len(ls) = 0 THEN << >>
    ELSE IF Len(ls) = 1 THEN ls[1]
    ELSE ls[1] \o <<"\n">> \o JoinLines(Tail(ls))

Sources(alphabet, lo, hi) ==
    {JoinLines(ls) : ls \in UNION {[1..n -> alphabet] : n \in lo..hi}}

MainAlphabet == {LnEmpty, LnCall, LnSendTransfer, LnSum, LnFor, LnStore,
                 LnFunction, LnNatSpec}

\* A new SolidityAnalyzer(code) for a source out of texts.
Constructed(texts) ==
    /\ code \in texts
    /\ lines = Split(code)
    /\ pc = "idle"
    /\ index = 0
    /\ lastIndex = [patterns |-> <<0, 0, 0, 0>>, mathPattern |-> 0,
                    accessFunctionPattern |-> 0, natspecFunctionPattern |-> 0]
    /\ vulnerabilities = << >>
    /\ report = {}
    /\ previous = {}
    /\ tieUp \in BOOLEAN
    /\ penalties = NoPenalties
    /\ scores = ScoresOf(NoPenalties)
    /\ weighted = 0
    /\ overallScore = 0

Init == Constructed(Sources(MainAlphabet, 1, MaxLines))

Spec == Init /\ [][Next]_vars

(***************************************************************************)
(* Sources of ten lines around an external call on line 5.                 *)
(***************************************************************************)
WindowSources ==
    {JoinLines(<<LnEmpty, LnEmpty, LnEmpty, l4, LnCall, l6, l7, l8, l9, l10>>) :
        l4 \in {LnEmpty, LnCall},
        l6 \in {LnEmpty, LnSum}, l7 \in {LnEmpty, LnCompound},
        l8 \in {LnEmpty, LnCompound}, l9 \in {LnEmpty, LnSum},
        l10 \in {LnEmpty, LnSum}}

InitWindow == Constructed(WindowSources)

SpecWindow == InitWindow /\ [][Next]_vars

(***************************************************************************)
(* Sources with version pragmas, SafeMath markers and arithmetic.          *)
(***************************************************************************)
VersionAlphabet == {LnEmpty, LnSum, LnPragma08, LnPragma04, LnSafeMath}

InitVersion == Constructed(Sources(VersionAlphabet, 1, MaxLines))

SpecVersion == InitVersion /\ [][Next]_vars

(***************************************************************************)
(* Sources of function declarations, guards and closing braces.            *)
(***************************************************************************)
AccessAlphabet == {LnEmpty, LnFunction, LnGuarded, LnRequire, LnClose}

InitAccess == Constructed(Sources(AccessAlphabet, 1, MaxLines))

SpecAccess == InitAccess /\ [][Next]_vars

(***************************************************************************)
(* Sources of indented lines, with loops and storage writes.               *)
(***************************************************************************)
SnippetAlphabet == {LnEmpty, LnFor, LnIndentStore, LnIndentSend, LnCount}

InitSnippet == Constructed(Sources(SnippetAlphabet, 1, MaxLines))

SpecSnippet == InitSnippet /\ [][Next]_vars

(***************************************************************************)
(* Sources with the forms of a version pragma from 0.8 on.                 *)
(***************************************************************************)
PragmaAlphabet == {LnEmpty, LnSum, LnSafeMath, LnPragmaPlain08, LnPragmaGt08, LnPragmaGe08}

InitPragma == Constructed(Sources(PragmaAlphabet, 1, MaxLines))

SpecPragma == InitPragma /\ [][Next]_vars

(***************************************************************************)
(* Sources of declarations with the guards below them.                     *)
(***************************************************************************)
GuardAlphabet == {LnEmpty, LnFunction, LnRequire, LnModifier, LnClose}

InitGuard == Constructed(Sources(GuardAlphabet, 1, MaxLines))

SpecGuard == InitGuard /\ [][Next]_vars

(***************************************************************************)
(* Sources of twelve lines under a loop on line 1, with storage writes on  *)
(* the lines around the end of its window.                                 *)
(***************************************************************************)
LoopSources ==
    {JoinLines(<<LnFor, l2, LnEmpty, LnEmpty, LnEmpty, LnEmpty, LnEmpty, LnEmpty,
                 LnEmpty, l10, l11, l12>>) :
        l2 \in {LnEmpty, LnFor},
        l10 \in {LnEmpty, LnStore}, l11 \in {LnEmpty, LnStore}, l12 \in {LnEmpty, LnStore}}

InitLoop == Constructed(LoopSources)

SpecLoop == InitLoop /\ [][Next]_vars

(***************************************************************************)
(* calculateScores on its own: the forEach over a list of findings, one    *)
(* finding a step.  penalties are the sums so far, scores what the list so *)
(* far scores, index the number of findings taken.  The first MaxAny       *)
(* findings are of any title and severity, the ones after them Critical.   *)
(***************************************************************************)
MaxAny == 1
MaxFindings == 14

ScoreAny ==
    /\ pc = "calculateScores"
    /\ index < MaxAny
    /\ \E t \in Titles, sv \in Severities :
          penalties' = ScoreCallback(penalties, [title |-> t, severity |-> sv])
    /\ scores' = ScoresOf(penalties')
    /\ index' = index + 1
    /\ UNCHANGED <<code, lines, pc, lastIndex, vulnerabilities, report, previous,
                   tieUp, weighted, overallScore>>

ScoreCritical ==
    /\ pc = "calculateScores"
    /\ index < MaxFindings
    /\ \E t \in Titles :
          penalties' = ScoreCallback(penalties, [title |-> t, severity |-> "Critical"])
    /\ scores' = ScoresOf(penalties')
    /\ index' = index + 1
    /\ UNCHANGED <<code, lines, pc, lastIndex, vulnerabilities, report, previous,
                   tieUp, weighted, overallScore>>

NextScores == ScoreAny \/ ScoreCritical

InitScores ==
    /\ code = << >>
    /\ lines = << >>
    /\ pc = "calculateScores"
    /\ index = 0
    /\ lastIndex = [patterns |-> <<0, 0, 0, 0>>, mathPattern |-> 0,
                    accessFunctionPattern |-> 0, natspecFunctionPattern |-> 0]
    /\ vulnerabilities = << >>
    /\ report = {}
    /\ previous = {}
    /\ tieUp = TRUE
    /\ penalties = NoPenalties
    /\ scores = ScoresOf(NoPenalties)
    /\ weighted = 0
    /\ overallScore = 0

SpecScores == InitScores /\ [][NextScores]_vars

(***************************************************************************)
(* calculateOverallScore on its own, on category scores from six up in     *)
(* steps of a half.                                                        *)
(***************************************************************************)
MaxHalves == 5

ScoreGrid == {240 + 20 * k : k \in 0..MaxHalves}

CalculateOverall ==
    /\ pc = "calculateOverallScore"
    /\ weighted' = WeightedSum(scores)
    /\ overallScore' = calculateOverallScore(scores, tieUp)
    /\ pc' = "returned"
    /\ UNCHANGED <<code, lines, index, lastIndex, vulnerabilities, report, previous,
                   tieUp, penalties, scores>>

InitOverall ==
    /\ code = << >>
    /\ lines = << >>
    /\ pc = "calculateOverallScore"
    /\ index = 0
    /\ lastIndex = [patterns |-> <<0, 0, 0, 0>>, mathPattern |-> 0,
                    accessFunctionPattern |-> 0, natspecFunctionPattern |-> 0]
    /\ vulnerabilities = << >>
    /\ report = {}
    /\ previous = {}
    /\ tieUp \in BOOLEAN
    /\ penalties = NoPenalties
    /\ scores \in [{"security", "gasEfficiency", "performance", "codeQuality",
                    "documentation"} -> ScoreGrid]
    /\ weighted = 0
    /\ overallScore = 0

SpecOverall == InitOverall /\ [][CalculateOverall]_vars

(***************************************************************************)
(* Properties.                                                             *)
(***************************************************************************)
IsReentrancyAt(v, line, severity) ==
    v.title = TitleReentrancy /\ v.line = line /\ v.severity = severity

\* C1: a source whose line 5 is the call x.call{value: amt}(""); and whose
\* line 7 is balance -= amt; gets a reentrancy finding with line 5 and
\* severity Critical.
C1_CompoundAssignmentCritical ==
    \A r \in report :
        (Len(lines) >= 7 /\ lines[5] = LnCall /\ lines[7] = LnCompound)
            => \E i \in DOMAIN r.vulnerabilities :
                   IsReentrancyAt(r.vulnerabilities[i], 5, "Critical")

\* C2: a source whose line 5 is the call and whose lines 6 to 10 hold no state
\* mutation gets a reentrancy finding with line 5 and severity High.
C2_NoMutationHigh ==
    \A r \in report :
        (/\ Len(lines) >= 10
         /\ lines[5] = LnCall
         /\ \A n \in 6..10 : ~IsStateModification(lines[n]))
            => \E i \in DOMAIN r.vulnerabilities :
                   IsReentrancyAt(r.vulnerabilities[i], 5, "High")

\* C3: no two findings of a report have the same id.
C3_IdsDistinct ==
    \A r \in report :
        \A i, j \in DOMAIN r.vulnerabilities :
            i # j => r.vulnerabilities[i].id # r.vulnerabilities[j].id

\* C4: a second analysis of the same text, by the same instance or by a new
\* one, returns the report the first returned, and every /g expression is at
\* lastIndex 0 when its detector comes to the first line.
C4_Deterministic ==
    /\ (report # {} /\ previous # {}) => report = previous
    /\ (pc = "reentrancy" /\ index = 0) => lastIndex.patterns = <<0, 0, 0, 0>>
    /\ (pc = "overflow" /\ index = 0) => lastIndex.mathPattern = 0
    /\ (pc = "access" /\ index = 0) => lastIndex.accessFunctionPattern = 0
    /\ (pc = "natspec" /\ index = 0) => lastIndex.natspecFunctionPattern = 0

\* A second report of a text whose last line left a /g expression of
\* detectReentrancy at a lastIndex other than 0.
C4_SecondReport ==
    /\ report # {}
    /\ previous = report
    /\ lastIndex.patterns # <<0, 0, 0, 0>>
    /\ \E r \in report : Len(r.vulnerabilities) >= 2

\* C5: each of the five category scores of a report is at least 1.0 and at
\* most 10.0.
C5_ScoresInRange ==
    \A r \in report :
        \A b \in DOMAIN r.scores : 40 <= r.scores[b] /\ r.scores[b] <= 400

\* A report whose security score is held at 1.0 and whose other scores are not.
C5_SecurityAtFloor ==
    \E r \in report :
        /\ r.scores.security = 40
        /\ r.scores.codeQuality > 40
        /\ Len(r.vulnerabilities) >= 5

\* C6: the overall score of a report is the one-decimal number nearest to
\* 0.30 security + 0.20 gasEfficiency + 0.20 performance + 0.20 codeQuality
\* + 0.10 documentation of the report's own scores: the two differ by at most
\* a twentieth (20 four-hundredths).
C6_OverallDerived ==
    \A r \in report :
        LET sum == 3 * r.scores.security + 2 * r.scores.gasEfficiency
                     + 2 * r.scores.performance + 2 * r.scores.codeQuality
                     + r.scores.documentation
        IN /\ 40 * r.overallScore - 20 <= sum
           /\ sum <= 40 * r.overallScore + 20

\* A report with findings whose weighted sum is no whole number of tenths and
\* is rounded up.
C6_RoundedUp ==
    \E r \in report :
        /\ r.vulnerabilities # << >>
        /\ WeightedSum(r.scores) % 40 > 20
        /\ 40 * r.overallScore > WeightedSum(r.scores)

C7Scores ==
    [security |-> 320, gasEfficiency |-> 280, performance |-> 300,
     codeQuality |-> 340, documentation |-> 240]

\* C7 as stated: for the scores 8, 7, 7.5, 8.5, 6 the weighted sum is 7.55
\* (3020 four-hundredths) and the overall score 7.6.
C7_WeightedSum755 ==
    (pc = "returned" /\ scores = C7Scores) => (weighted = 3020 /\ overallScore = 76)

\* C7 as amended: for the scores 8, 7, 7.5, 8.5, 6 the weighted sum is 7.6
\* (3040 four-hundredths) and the overall score 7.6.
C7_WeightedSum76 ==
    (pc = "returned" /\ scores = C7Scores) => (weighted = 3040 /\ overallScore = 76)

\* calculateOverallScore has returned for the scores 8, 7, 7.5, 8.5, 6.
C7_Returned == pc = "returned" /\ scores = C7Scores

\* C8: a step of calculateScores that takes one more Critical finding raises no
\* category score and leaves every category score at 1.0 or more.
C8_BucketMonotone ==
    [][(/\ pc = "calculateScores"
        /\ \E t \in Titles :
              penalties' = ScoreCallback(penalties, [title |-> t, severity |-> "Critical"]))
       => \A b \in DOMAIN scores : scores'[b] <= scores[b] /\ scores'[b] >= 40]_vars

\* Critical findings have been taken beyond the cap: the security and the
\* code-quality penalties are above 40 and both scores are held at 1.0.
C8_BeyondCap ==
    /\ pc = "calculateScores"
    /\ penalties.security > 10 * maxPenalty
    /\ penalties.quality > 10 * maxPenalty
    /\ scores.security = 40
    /\ scores.codeQuality = 40

\* C9: the report of the empty text has no findings, five category scores of
\* 10.0 and an overall score of 10.0.
C9_EmptyInput ==
    \A r \in report :
        code = << >> =>
            /\ r.vulnerabilities = << >>
            /\ \A b \in DOMAIN r.scores : r.scores[b] = 400
            /\ r.overallScore = 100

\* The empty text has been analyzed: its one empty line went through the five
\* detectors.
C9_EmptyAnalyzed == code = << >> /\ lines = <<LnEmpty>> /\ report # {}

IsOverflow(v) == v.title = TitleOverflow

\* C10: the report of a source that contains pragma solidity ^0.8.4; has no
\* Overflow/Underflow finding.
C10_VersionGate ==
    \A r \in report :
        Includes(code, LnPragma08)
            => \A i \in DOMAIN r.vulnerabilities : ~IsOverflow(r.vulnerabilities[i])

\* A report of a source with the pragma, an arithmetic line and no SafeMath
\* marker.
C10_PragmaWithArithmetic ==
    /\ report # {}
    /\ \E n \in DOMAIN lines : lines[n] = LnPragma08
    /\ \E n \in DOMAIN lines : lines[n] = LnSum
    /\ ~hasSafeMath(code)

IsAccessAt(v, line) == v.title = TitleAccess /\ v.line = line

\* C11: no report has a Missing Access Control finding at a line that reads
\* function setOwner(address x) public onlyOwner { owner = x; }, whatever the
\* lines around it are.
C11_GuardedDeclaration ==
    \A r \in report :
        \A n \in DOMAIN lines :
            lines[n] = LnGuarded
                => \A i \in DOMAIN r.vulnerabilities : ~IsAccessAt(r.vulnerabilities[i], n)

\* A report of a source with the guarded declaration and, on another line, an
\* unguarded one that is reported.
C11_GuardedBesideUnguarded ==
    \E r \in report :
        /\ \E n \in DOMAIN lines : lines[n] = LnGuarded
        /\ \E i \in DOMAIN r.vulnerabilities : r.vulnerabilities[i].title = TitleAccess

\* The place of a finding's detector in the order analyze() calls them in.
DetectorRank(v) ==
    CASE v.title = TitleReentrancy -> 1
      [] v.title = TitleOverflow   -> 2
      [] v.title = TitleGas        -> 3
      [] v.title = TitleAccess     -> 4
      [] v.title = TitleNatSpec    -> 5

\* C12: in every report the findings come detector by detector in the order
\* reentrancy, overflow/underflow, gas, access control, documentation, and the
\* findings of one detector come with line numbers that never decrease.
C12_FindingOrder ==
    \A r \in report :
        \A i, j \in DOMAIN r.vulnerabilities :
            i < j =>
                LET a == r.vulnerabilities[i]
                    b == r.vulnerabilities[j]
                IN /\ DetectorRank(a) <= DetectorRank(b)
                   /\ DetectorRank(a) = DetectorRank(b) => a.line <= b.line

\* A report with a finding of an earlier detector in front of a gas finding
\* whose line is the storage line, not the loop line its id is built from.
C12_GasBehindEarlierDetector ==
    \E r \in report :
        \E i, j \in DOMAIN r.vulnerabilities :
            /\ i < j
            /\ DetectorRank(r.vulnerabilities[i]) < DetectorRank(r.vulnerabilities[j])
            /\ r.vulnerabilities[j].title = TitleGas
            /\ r.vulnerabilities[j].line # r.vulnerabilities[j].id[2] + 1

\* C13: every finding has one of the five severities, and the one its detector
\* gives: reentrancy Critical or High, overflow/underflow Medium, gas Low,
\* access control High, documentation Info.
C13_SeverityByDetector ==
    \A r \in report :
        \A i \in DOMAIN r.vulnerabilities :
            LET v == r.vulnerabilities[i]
            IN /\ v.severity \in {"Critical", "High", "Medium", "Low", "Info"}
               /\ v.title = TitleReentrancy => v.severity \in {"Critical", "High"}
               /\ v.title = TitleOverflow => v.severity = "Medium"
               /\ v.title = TitleGas => v.severity = "Low"
               /\ v.title = TitleAccess => v.severity = "High"
               /\ v.title = TitleNatSpec => v.severity = "Info"

\* A report with a Critical reentrancy finding, a Medium, a High access
\* control finding and an Info finding.
C13_FourSeverities ==
    \E r \in report :
        LET Has(title, severity) ==
                \E i \in DOMAIN r.vulnerabilities :
                    /\ r.vulnerabilities[i].title = title
                    /\ r.vulnerabilities[i].severity = severity
        IN /\ Has(TitleReentrancy, "Critical")
           /\ Has(TitleOverflow, "Medium")
           /\ Has(TitleAccess, "High")
           /\ Has(TitleNatSpec, "Info")

\* t is s without the white space at its two ends.
IsTrimOf(t, s) ==
    \E a \in 1..(Len(s) + 1), b \in 0..Len(s) :
        /\ t = SubSeq(s, a, b)
        /\ \A k \in 1..(a - 1) : s[k] \in WhiteSpace
        /\ \A k \in (b + 1)..Len(s) : s[k] \in WhiteSpace
        /\ t # << >> => (t[1] \notin WhiteSpace /\ t[Len(t)] \notin WhiteSpace)

\* The expressions a detector reports a line for.
ReportedPatterns(title) ==
    CASE title = TitleReentrancy -> {ReCallValue, ReCallDotValue, ReSend, ReTransfer}
      [] title = TitleOverflow   -> {mathPattern}
      [] title = TitleGas        -> {storageAccessPattern}
      [] title = TitleAccess     -> {accessFunctionPattern}
      [] title = TitleNatSpec    -> {natspecFunctionPattern}

\* C14: the line of every finding is a line number of the source, from 1 to
\* the number of lines, the detector's expression matches that line, and the
\* finding's code is that line without the white space at its ends.
C14_LineAndSnippet ==
    \A r \in report :
        \A i \in DOMAIN r.vulnerabilities :
            LET v == r.vulnerabilities[i]
            IN /\ v.line \in 1..Len(lines)
               /\ \E re \in ReportedPatterns(v.title) : RegExpTest(re, lines[v.line])
               /\ IsTrimOf(v.code, lines[v.line])

\* A report with a finding for a line with white space at both ends and a gas
\* finding for an indented storage line below its loop line.
C14_IndentedLines ==
    \E r \in report :
        /\ \E i \in DOMAIN r.vulnerabilities :
              /\ r.vulnerabilities[i].title = TitleReentrancy
              /\ lines[r.vulnerabilities[i].line] = LnIndentSend
        /\ \E i \in DOMAIN r.vulnerabilities :
              /\ r.vulnerabilities[i].title = TitleGas
              /\ lines[r.vulnerabilities[i].line] = LnIndentStore
              /\ r.vulnerabilities[i].line > r.vulnerabilities[i].id[2] + 1

\* C15: the suggestions of every report are the same list of seven strings, no
\* two of them equal, whatever the findings are.
C15_ConstantSuggestions ==
    \A r \in report :
        /\ r.suggestions =
              <<"Follow the checks-effects-interactions pattern for all external calls",
                "Use OpenZeppelin libraries for common security patterns",
                "Add comprehensive NatSpec documentation to all public functions",
                "Implement proper access control for administrative functions",
                "Consider gas optimization for frequently called functions",
                "Add event emissions for important state changes",
                "Use latest Solidity version with built-in overflow protection">>
        /\ Len(r.suggestions) = 7
        /\ \A i, j \in DOMAIN r.suggestions : i # j => r.suggestions[i] # r.suggestions[j]

\* A report with findings of three detectors and the seven suggestions.
C15_WithThreeDetectors ==
    \E r \in report :
        /\ Len(r.suggestions) = 7
        /\ Cardinality({r.vulnerabilities[i].title : i \in DOMAIN r.vulnerabilities}) >= 3

\* The findings of a report with a title and a line.
FindingsAt(r, title, line) ==
    {i \in DOMAIN r.vulnerabilities :
        r.vulnerabilities[i].title = title /\ r.vulnerabilities[i].line = line}

\* C16: for every line of the source, the report has as many reentrancy
\* findings with that line as there are external-call patterns, of the four,
\* that match the line.
C16_ReentrancyComplete ==
    \A r \in report :
        \A n \in DOMAIN lines :
            Cardinality(FindingsAt(r, TitleReentrancy, n))
                = Cardinality({p \in 1..4 : RegExpTest(patterns[p], lines[n])})

\* C17: a reentrancy finding at line L is Critical if one of the lines L+1 to
\* L+5 that exist holds a state mutation, and High if none does.
C17_WindowOfFive ==
    \A r \in report :
        \A i \in DOMAIN r.vulnerabilities :
            LET v == r.vulnerabilities[i]
                mutated == \E n \in (v.line + 1)..Min(v.line + 5, Len(lines)) :
                               IsStateModification(lines[n])
            IN v.title = TitleReentrancy
                   => v.severity = (IF mutated THEN "Critical" ELSE "High")

\* C18: the report of a source with a SafeMath marker, or with a version
\* pragma from 0.8 on in one of the forms 0.8.x, ^0.8.x, >0.8.x, >=0.8.x, has
\* no overflow/underflow finding.
C18_GateAllPragmaForms ==
    \A r \in report :
        (\E n \in DOMAIN lines :
            lines[n] \in {LnSafeMath, LnPragmaPlain08, LnPragma08, LnPragmaGt08, LnPragmaGe08})
            => \A i \in DOMAIN r.vulnerabilities : r.vulnerabilities[i].title # TitleOverflow

\* C19: with the gate open, the report has one Medium overflow/underflow
\* finding for every line that matches the arithmetic pattern and holds
\* neither // nor *, and none for any other line.
C19_OverflowPerLine ==
    \A r \in report :
        OverflowGateOpen(code) =>
            \A n \in DOMAIN lines :
                LET reported == /\ RegExpTest(mathPattern, lines[n])
                                /\ ~Includes(lines[n], <<"/","/">>)
                                /\ ~Includes(lines[n], <<"*">>)
                    found == FindingsAt(r, TitleOverflow, n)
                IN /\ Cardinality(found) = (IF reported THEN 1 ELSE 0)
                   /\ \A i \in found : r.vulnerabilities[i].severity = "Medium"

\* C20: for every line that declares a public or external function, has no
\* guard on it and none on the lines scanned below it, the report has one
\* High Missing Access Control finding with that line.
C20_AccessComplete ==
    \A r \in report :
        \A n \in DOMAIN lines :
            (/\ RegExpTest(accessFunctionPattern, lines[n])
             /\ ~RegExpTest(modifierPattern, lines[n])
             /\ ~hasAccessControlInFunction(lines, n - 1))
                => /\ Cardinality(FindingsAt(r, TitleAccess, n)) = 1
                   /\ \A i \in FindingsAt(r, TitleAccess, n) :
                         r.vulnerabilities[i].severity = "High"

\* C21: a declaration of a public or external function gets no Missing Access
\* Control finding when onlyOwner, require(msg.sender or the word modifier is
\* on a line of the ten from the declaration on, at or before the first of
\* them with a closing brace.
C21_ScanSeesThreeGuards ==
    \A r \in report :
        \A n \in DOMAIN lines :
            (\E m \in n..Min(n + 9, Len(lines)) :
                /\ RegExpTest(modifierPattern, lines[m])
                /\ \A j \in n..(m - 1) : ~Includes(lines[j], <<"}">>))
                => FindingsAt(r, TitleAccess, n) = {}

\* C22: the report has an Info Missing NatSpec finding with line L exactly
\* when line L declares a function and none of the lines L-3 to L-1 that exist
\* holds /// or /**.
C22_NatSpecRule ==
    \A r \in report :
        \A n \in DOMAIN lines :
            LET undocumented ==
                    /\ RegExpTest(natspecFunctionPattern, lines[n])
                    /\ \A m \in Max(1, n - 3)..(n - 1) : ~RegExpTest(natspecPattern, lines[m])
            IN /\ (FindingsAt(r, TitleNatSpec, n) # {}) <=> undocumented
               /\ \A i \in FindingsAt(r, TitleNatSpec, n) :
                     r.vulnerabilities[i].severity = "Info"

\* The gas findings of a report that the loop line n produced.
GasFindingsOf(r, n) ==
    {i \in DOMAIN r.vulnerabilities :
        /\ r.vulnerabilities[i].title = TitleGas
        /\ r.vulnerabilities[i].id = <<"gas-loop", n - 1>>}

\* The lines of the ten from line n on that assign to an indexed name.
StorageLines(n) ==
    {m \in n..Min(n + 9, Len(lines)) : RegExpTest(storageAccessPattern, lines[m])}

\* C23: a line that opens a for loop produces at most one gas finding: one,
\* with the first storage line of its window as line, if the window has a
\* storage line, and none otherwise; other lines produce none.
C23_FirstHitOnly ==
    \A r \in report :
        /\ \A i \in DOMAIN r.vulnerabilities :
              r.vulnerabilities[i].title = TitleGas
                  => \E n \in DOMAIN lines : i \in GasFindingsOf(r, n)
        /\ \A n \in DOMAIN lines :
              IF RegExpTest(forLoopPattern, lines[n]) /\ StorageLines(n) # {}
              THEN /\ Cardinality(GasFindingsOf(r, n)) = 1
                   /\ \A i \in GasFindingsOf(r, n) :
                         /\ r.vulnerabilities[i].line \in StorageLines(n)
                         /\ \A m \in StorageLines(n) : r.vulnerabilities[i].line <= m
              ELSE GasFindingsOf(r, n) = {}

\* A report of a source with a loop line and two storage lines below it.
C23_TwoStorageLines ==
    \E r \in report :
        \E n \in DOMAIN lines :
            /\ RegExpTest(forLoopPattern, lines[n])
            /\ Cardinality(StorageLines(n)) >= 2
            /\ GasFindingsOf(r, n) # {}

\* C24: a loop opened on line L gets a gas finding exactly when one of the
\* lines L+1 to L+10 that exist assigns to an indexed name, and the finding's
\* line is one of those lines.
C24_WindowNextTen ==
    \A r \in report :
        \A n \in DOMAIN lines :
            RegExpTest(forLoopPattern, lines[n]) =>
                LET next == {m \in (n + 1)..Min(n + 10, Len(lines)) :
                                RegExpTest(storageAccessPattern, lines[m])}
                IN /\ (GasFindingsOf(r, n) # {}) <=> (next # {})
                   /\ \A i \in GasFindingsOf(r, n) : r.vulnerabilities[i].line \in next

\* The weight table of the claim.
ClaimedWeight(severity) ==
    CASE severity = "Critical" -> 10
      [] severity = "High"     -> 7
      [] severity = "Medium"   -> 5
      [] severity = "Low"      -> 3
      [] severity = "Info"     -> 1

\* The sum of the weights of the findings of vs with a title in titles.
RECURSIVE WeightOf(_, _)
WeightOf(vs, titles) ==
    IF vs = << >> THEN 0
    ELSE (IF Head(vs).title \in titles THEN ClaimedWeight(Head(vs).severity) ELSE 0)
           + WeightOf(Tail(vs), titles)

\* max(1, 10 - min(40, penalty) / 4) in fortieths, for a penalty in tenths.
ClaimedScore(tenths) ==
    LET capped == IF tenths > 400 THEN 400 ELSE tenths
    IN IF 400 - capped < 40 THEN 40 ELSE 400 - capped

\* C25: the scores of a report are max(1, 10 - min(40, penalty) / 4) of the
\* penalties: for security the weights of the reentrancy, access control and
\* overflow findings, for gasEfficiency and for performance those of the gas
\* findings, for documentation those of the NatSpec findings, for codeQuality
\* 30% of the weights of all findings.
C25_ScoreAggregation ==
    \A r \in report :
        LET vs == r.vulnerabilities
        IN /\ r.scores.security =
                 ClaimedScore(10 * WeightOf(vs, {TitleReentrancy, TitleAccess, TitleOverflow}))
           /\ r.scores.gasEfficiency = ClaimedScore(10 * WeightOf(vs, {TitleGas}))
           /\ r.scores.performance = ClaimedScore(10 * WeightOf(vs, {TitleGas}))
           /\ r.scores.documentation = ClaimedScore(10 * WeightOf(vs, {TitleNatSpec}))
           /\ r.scores.codeQuality = ClaimedScore(3 * WeightOf(vs, Titles))

\* A report whose security penalty is high enough for the score to be held
\* at 1.0, with Critical, High and Medium findings.
C25_FloorAndMixed ==
    \E r \in report :
        /\ WeightOf(r.vulnerabilities, {TitleReentrancy, TitleAccess, TitleOverflow}) > 36
        /\ r.scores.security = 40
        /\ \A sv \in {"Critical", "High", "Medium"} :
              \E i \in DOMAIN r.vulnerabilities : r.vulnerabilities[i].severity = sv

\* C26: the analyzer constructed with the empty text has no line.
C26_EmptyTextNoLine == code = << >> => Len(lines) = 0

\* Line n is the first line or the line above it does not match re.
AboveNoMatch(re, n) == n = 1 \/ ~RegExpTest(re, lines[n - 1])

C28_PerfectMeansClean ==
    \A r \in report : r.vulnerabilities # << >> => r.overallScore < 100

\* C29: no two gas findings of a report have the same line.
C29_GasLinesDistinct ==
    \A r \in report :
        \A i, j \in DOMAIN r.vulnerabilities :
            (/\ i # j
             /\ r.vulnerabilities[i].title = TitleGas
             /\ r.vulnerabilities[j].title = TitleGas)
                => r.vulnerabilities[i].line # r.vulnerabilities[j].line

\* C30: in every report the gasEfficiency score and the performance score are
\* equal.
C30_GasEqualsPerformance ==
    \A r \in report : r.scores.gasEfficiency = r.scores.performance

\* A report with gas findings beside findings of other detectors: both scores
\* are below 10.0 and differ from the security score.
C30_GasFindingsScored ==
    \E r \in report :
        /\ \E i \in DOMAIN r.vulnerabilities : r.vulnerabilities[i].title = TitleGas
        /\ \E i \in DOMAIN r.vulnerabilities : r.vulnerabilities[i].title # TitleGas
        /\ r.scores.gasEfficiency < 400
        /\ r.scores.performance < 400
        /\ r.scores.security # r.scores.gasEfficiency
====
